---- MODULE Spec2Model ----
(***************************************************************************)
(* Model of the pngme chunk codec: ChunkType (src/src/chunk_type.rs) and   *)
(* Chunk (src/src/chunk.rs).                                               *)
(*                                                                         *)
(* A u8 is a number in 0..255.  A u32 is held as a pair <<hi, lo>> of its  *)
(* two 16-bit halves, since its values do not fit the integers of the      *)
(* model checker.  A String / &str is held as the sequence of its UTF-8    *)
(* bytes, which is what Rust indexes and slices.                           *)
(***************************************************************************)
EXTENDS Integers, Sequences, FiniteSets

(* ------------------------------ bounds --------------------------------- *)
\* longest payload handed to Chunk::new / put in a decode buffer
MaxLen == 2
\* longest text handed to ChunkType::from_str
MaxText == 5

(* --------------------------- u8 / u32 helpers -------------------------- *)
RECURSIVE Xor(_, _)
\* bitwise exclusive or of two naturals
Xor(a, b) ==
    IF a = 0 THEN b
    ELSE IF b = 0 THEN a
    ELSE ((a + b) % 2) + 2 * Xor(a \div 2, b \div 2)

RECURSIVE BitAnd(_, _)
\* bitwise and of two naturals
BitAnd(a, b) ==
    IF a = 0 \/ b = 0 THEN 0
    ELSE ((a % 2) * (b % 2)) + 2 * BitAnd(a \div 2, b \div 2)

RECURSIVE Pow2(_)
Pow2(n) == IF n = 0 THEN 1 ELSE 2 * Pow2(n - 1)

XorU32(x, y) == <<Xor(x[1], y[1]), Xor(x[2], y[2])>>

\* usize as u32
AsU32(n) == <<(n \div 65536) % 65536, n % 65536>>

\* u32::from_be_bytes
from_be_bytes(b) == <<b[1] * 256 + b[2], b[3] * 256 + b[4]>>

\* u32::to_be_bytes
to_be_bytes(u) == <<u[1] \div 256, u[1] % 256, u[2] \div 256, u[2] % 256>>

\* u32 >> n, for 0 <= n < 32
Shr(u, n) ==
    IF n >= 16 THEN <<0, u[1] \div Pow2(n - 16)>>
    ELSE <<u[1] \div Pow2(n),
           (u[2] \div Pow2(n)) + (u[1] % Pow2(n)) * Pow2(16 - n)>>

\* (u32 & 0xff) as u8
LowByte(u) == BitAnd(u[2], 255)

is_ascii_alphabetic(b) == (b >= 65 /\ b <= 90) \/ (b >= 97 /\ b <= 122)

is_ascii_alphanumeric(b) == is_ascii_alphabetic(b) \/ (b >= 48 /\ b <= 57)

is_ascii_graphic(b) == b >= 33 /\ b <= 126

\* the UTF-8 bytes of one char obtained by `u8 as char` (U+0000..U+00FF)
Utf8Char(b) ==
    IF b < 128 THEN <<b>> ELSE <<192 + (b \div 64), 128 + (b % 64)>>

RECURSIVE CollectString(_)
\* bs.iter().map(|x| *x as char).collect::<String>()
CollectString(bs) ==
    IF bs = <<>> THEN <<>>
    ELSE Utf8Char(Head(bs)) \o CollectString(Tail(bs))

\* str::is_char_boundary
is_char_boundary(str, i) ==
    \/ i = 0
    \/ i = Len(str)
    \/ i < Len(str) /\ ~(str[i + 1] >= 128 /\ str[i + 1] <= 191)

RECURSIVE Reverse(_)
Reverse(q) == IF q = <<>> THEN <<>> ELSE Reverse(Tail(q)) \o <<Head(q)>>

(* ------------------------------ CRC-32 --------------------------------- *)
\* CRC_32_CKSUM: poly 0x04c11db7, init 0, no reflection, xorout 0xffffffff
Poly == <<1217, 7607>>
CrcInit == <<0, 0>>
XorOut == <<65535, 65535>>

\* one shift of the register, most significant bit first
CrcShift(c) ==
    LET sh == <<(c[1] % 32768) * 2 + (c[2] \div 32768), (c[2] % 32768) * 2>>
    IN  IF c[1] >= 32768 THEN XorU32(sh, Poly) ELSE sh

RECURSIVE CrcShifts(_, _)
CrcShifts(c, k) == IF k = 0 THEN c ELSE CrcShifts(CrcShift(c), k - 1)

\* the 256-entry table Crc::new builds: the register after a lone byte
CrcTable == [i \in 0..255 |-> CrcShifts(<<i * 256, 0>>, 8)]

\* feed one byte into the register:
\* table[((crc >> 24) ^ byte) & 0xff] ^ (crc << 8)
CrcUpdate(c, b) ==
    XorU32(CrcTable[Xor(c[1] \div 256, b)],
           <<(c[1] % 256) * 256 + (c[2] \div 256), (c[2] % 256) * 256>>)

RECURSIVE CrcFold(_, _)
CrcFold(c, bs) ==
    IF bs = <<>> THEN c
    ELSE CrcFold(CrcUpdate(c, Head(bs)), Tail(bs))

\* CHECKSUM_U32.checksum(bs)
checksum(bs) == XorU32(CrcFold(CrcInit, bs), XorOut)

(* ----------------------------- results --------------------------------- *)
Ok(x) == [kind |-> "Ok", v |-> x]
Err == [kind |-> "Err"]
\* the call did not return: index out of range, bad slice, unwrap on Err
Panic == [kind |-> "panic"]
None == [kind |-> "None"]
Some(x) == [kind |-> "Some", v |-> x]

(* ----------------------------- ChunkType ------------------------------- *)
\* A ChunkType is its field chunk_type_code, a u32.

\* ChunkType::bytes
bytes(self) == to_be_bytes(self)

\* ChunkType::is_valid
is_valid(self) == \A i \in 1..4 : is_ascii_alphabetic(to_be_bytes(self)[i])

\* the mask 0b0001_0000 of the four flag accessors
FlagMask == 16

\* ChunkType::is_critical
is_critical(self) == BitAnd(bytes(self)[1], FlagMask) = 0

\* ChunkType::is_public
is_public(self) == BitAnd(bytes(self)[2], FlagMask) = 0

\* ChunkType::is_reserved_bit_valid
is_reserved_bit_valid(self) == BitAnd(bytes(self)[3], FlagMask) = 0

\* ChunkType::is_safe_to_copy
is_safe_to_copy(self) == BitAnd(bytes(self)[4], FlagMask) = 0

\* impl TryFrom<[u8; 4]> for ChunkType
ChunkType_try_from(value) == Ok(from_be_bytes(value))

\* impl FromStr for ChunkType
from_str(s) ==
    IF Len(s) < 4 THEN Panic
    ELSE LET ret == from_be_bytes(SubSeq(s, 1, 4))
         IN  IF is_valid(ret) THEN Ok(ret) ELSE Err

\* Display with the final .rev() left out
fmt_norev(self) ==
    LET chars == [k \in 1..4 |-> LowByte(Shr(self, 8 * (k - 1)))]
    IN  CollectString(chars)

\* impl Display for ChunkType (the text of to_string)
fmt(self) ==
    LET chars == [k \in 1..4 |-> LowByte(Shr(self, 8 * (k - 1)))]
    IN  CollectString(Reverse(chars))

(* ------------------------------- Chunk --------------------------------- *)
\* A Chunk is a record [len, chuck_type, chunk_data, crc].

RECURSIVE TrimTrailing(_)
\* the while-let loop of Chunk::new: pop while the last byte is not graphic
TrimTrailing(d) ==
    IF d = <<>> THEN d
    ELSE IF is_ascii_graphic(d[Len(d)]) THEN d
    ELSE TrimTrailing(SubSeq(d, 1, Len(d) - 1))

\* Chunk::crc
crc(self) == checksum(fmt(self.chuck_type) \o self.chunk_data)

\* Chunk::new
new(tag_in, data_in) ==
    LET trimmed_data == TrimTrailing(data_in)
        ret == [len |-> AsU32(Len(trimmed_data)),
                chuck_type |-> tag_in,
                chunk_data |-> trimmed_data,
                crc |-> <<0, 0>>]
    IN  [ret EXCEPT !.crc = crc(ret)]

\* Chunk::length
length(self) == self.len

\* Chunk::chunk_type
chunk_type(self) == self.chuck_type

\* Chunk::data
data(self) == self.chunk_data

\* Chunk::data_as_string
data_as_string(self) ==
    Ok(CollectString(SelectSeq(self.chunk_data,
          LAMBDA x : is_ascii_alphanumeric(x) \/ x = 32)))

\* Chunk::as_bytes
as_bytes(self) == self.chunk_data

\* impl TryFrom<&[u8]> for Chunk
Chunk_try_from(value) ==
    IF Len(value) < 4 THEN Panic                      \* value[..4]
    ELSE
      LET slice_end == Len(value) - 4
          val_str == CollectString(SubSeq(value, 1, slice_end))
      IN  IF \/ Len(val_str) < 8                      \* &val_str[4..8]
             \/ ~is_char_boundary(val_str, 4)
             \/ ~is_char_boundary(val_str, 8)
          THEN Panic
          ELSE
            LET parsed == from_str(SubSeq(val_str, 5, 8))
            IN  IF parsed.kind # "Ok" THEN Panic      \* .unwrap()
                ELSE IF Len(value) < 8 THEN Panic     \* value[8..]
                ELSE Ok([len |-> from_be_bytes(SubSeq(value, 1, 4)),
                         chuck_type |-> parsed.v,
                         chunk_data |-> SubSeq(value, 9, Len(value)),
                         crc |-> checksum(value)])

(* ------------------------------ inputs --------------------------------- *)
\* 'R', 't', '1'
TagChars == {82, 116, 49}

\* the texts handed to from_str, the 3-byte ones too short for it
TextInputs == UNION {[1..n -> TagChars] : n \in 3..MaxText}

\* "RuSt", "AaAa", "R1St" and a tag with a byte that is not ASCII
RawTags ==
    {<<82, 117, 83, 116>>, <<65, 97, 65, 97>>, <<82, 49, 83, 116>>,
     <<200, 117, 83, 116>>}

\* 'A', '!', ' ', NUL
PayloadBytes == {65, 33, 32, 0}

Payloads == UNION {[1..n -> PayloadBytes] : n \in 0..MaxLen}

\* "RtRt" and "R1Rt"
BufTags == {<<82, 116, 82, 116>>, <<82, 49, 82, 116>>}

\* the checksum the wire layout asks for, and the same with its last bit
\* flipped
Trailers(t, p) ==
    {to_be_bytes(checksum(t \o p)),
     to_be_bytes(XorU32(checksum(t \o p), <<0, 1>>))}

\* length field, tag, payload, checksum; the length field right or wrong
Framed ==
    UNION {UNION {UNION {
        {to_be_bytes(AsU32(n)) \o t \o p \o c : c \in Trailers(t, p)}
        : p \in Payloads} : t \in BufTags} : n \in 0..(MaxLen + 1)}

\* every proper prefix, up to 11 bytes, of one framed chunk
Truncated ==
    LET b == <<0, 0, 0, 2>> \o <<82, 116, 82, 116>> \o <<65, 33>>
               \o to_be_bytes(checksum(<<82, 116, 82, 116, 65, 33>>))
    IN  {SubSeq(b, 1, k) : k \in 0..11}

\* buffers whose first bytes are not ASCII
HighBytes ==
    {<<195, 195, 82, 116, 82, 116, 65, 33, 0, 0>>,
     <<195, 0, 0, 82, 116, 82, 116, 65, 33, 0, 0, 0>>,
     <<0, 0, 0, 0, 82, 116, 82, 200, 0, 0, 0, 0>>}

BufInputs == Framed \cup Truncated \cup HighBytes

(* ------------------------------- state --------------------------------- *)
VARIABLES
    tagcall,  \* the last ChunkType constructor call, with its argument
    tag,      \* its result, None when no ChunkType is held
    shown,    \* the text of the held ChunkType, once rendered
    flags,    \* the four flags of the held ChunkType, once queried
    call,     \* the last Chunk constructor call, with its arguments
    chunk,    \* the Chunk held, None when there is none
    out,      \* the bytes of the last as_bytes call and the chunk encoded
    text      \* the result of the last data_as_string call

NoCall == [op |-> "none"]

vars == <<tagcall, tag, shown, flags, call, chunk, out, text>>

\* nothing is held: the state before the first call and after Drop
Idle == tag = None /\ chunk = None /\ call = NoCall /\ out = None

Init ==
    /\ tagcall = NoCall
    /\ tag = None
    /\ shown = None
    /\ flags = None
    /\ call = NoCall
    /\ chunk = None
    /\ out = None
    /\ text = None

\* ChunkType::from_str(s)
FromStr ==
    /\ Idle
    /\ \E s \in TextInputs :
         /\ tagcall' = [op |-> "from_str", s |-> s]
         /\ tag' = from_str(s)
    /\ shown' = None
    /\ flags' = None
    /\ call' = NoCall
    /\ UNCHANGED <<chunk, out, text>>

\* ChunkType::try_from([u8; 4])
TypeFromBytes ==
    /\ Idle
    /\ \E b \in RawTags :
         /\ tagcall' = [op |-> "try_from", value |-> b]
         /\ tag' = ChunkType_try_from(b)
    /\ shown' = None
    /\ flags' = None
    /\ call' = NoCall
    /\ UNCHANGED <<chunk, out, text>>

\* chunk_type.to_string()
Display ==
    /\ tag.kind = "Ok"
    /\ shown' = Some(fmt(tag.v))
    /\ UNCHANGED <<tagcall, tag, flags, call, chunk, out, text>>

\* the four flag accessors
Flags ==
    /\ tag.kind = "Ok"
    /\ flags' = Some([critical |-> is_critical(tag.v),
                      public |-> is_public(tag.v),
                      reserved_bit_valid |-> is_reserved_bit_valid(tag.v),
                      safe_to_copy |-> is_safe_to_copy(tag.v)])
    /\ UNCHANGED <<tagcall, tag, shown, call, chunk, out, text>>

\* Chunk::new(chunk_type, data); the ChunkType is moved into the Chunk
New ==
    /\ tag.kind = "Ok"
    /\ \E d \in Payloads :
         /\ call' = [op |-> "new", chunk_type |-> tag.v, data |-> d]
         /\ chunk' = Some(new(tag.v, d))
    /\ tagcall' = NoCall
    /\ tag' = None
    /\ shown' = None
    /\ flags' = None
    /\ out' = None
    /\ text' = None

\* Chunk::try_from(value), on an input buffer or on the bytes as_bytes gave
TryFrom ==
    /\ tag = None
    /\ \E value \in (IF Idle THEN BufInputs ELSE {}) \cup
                    (IF out.kind = "Some" THEN {out.v} ELSE {}) :
         LET r == Chunk_try_from(value)
         IN  /\ call' = [op |-> "try_from", value |-> value,
                         result |-> r.kind]
             /\ chunk' = IF r.kind = "Ok" THEN Some(r.v) ELSE None
    /\ text' = None
    /\ UNCHANGED <<tagcall, tag, shown, flags, out>>

\* chunk.as_bytes()
AsBytes ==
    /\ chunk.kind = "Some"
    /\ out' = [kind |-> "Some", v |-> as_bytes(chunk.v), of |-> chunk.v,
               by |-> call.op]
    /\ UNCHANGED <<tagcall, tag, shown, flags, call, chunk, text>>

\* chunk.data_as_string()
DataAsString ==
    /\ chunk.kind = "Some"
    /\ text' = data_as_string(chunk.v)
    /\ UNCHANGED <<tagcall, tag, shown, flags, call, chunk, out>>

\* the held values go out of scope
Drop ==
    /\ ~Idle
    /\ tagcall' = NoCall
    /\ tag' = None
    /\ shown' = None
    /\ flags' = None
    /\ call' = NoCall
    /\ chunk' = None
    /\ out' = None
    /\ text' = None

Next ==
    \/ FromStr
    \/ TypeFromBytes
    \/ Display
    \/ Flags
    \/ New
    \/ TryFrom
    \/ AsBytes
    \/ DataAsString
    \/ Drop

Spec == Init /\ [][Next]_vars

(* ------------------------------ claims --------------------------------- *)
\* the bytes [4,8) of a buffer are ASCII letters
TagIsAlphabetic(b) == \A i \in 5..8 : is_ascii_alphabetic(b[i])

\* the length field of a buffer says how many bytes lie between the tag
\* and the 4-byte trailer
LengthAgrees(b) == from_be_bytes(SubSeq(b, 1, 4)) = AsU32(Len(b) - 12)

\* the trailer of a buffer is the CRC of its tag and payload
TrailerAgrees(b) ==
    from_be_bytes(SubSeq(b, Len(b) - 3, Len(b)))
        = checksum(SubSeq(b, 5, Len(b) - 4))

\* the wire layout of a chunk: length, tag, payload, checksum
Layout(c) ==
    to_be_bytes(c.len) \o bytes(c.chuck_type) \o c.chunk_data
        \o to_be_bytes(c.crc)

\* C1: a buffer that is well formed but for its trailing checksum is
\* refused by decode with an error, and no Chunk is returned for it.
C1_ChecksumEnforced ==
    (/\ call.op = "try_from"
     /\ Len(call.value) >= 12
     /\ TagIsAlphabetic(call.value)
     /\ LengthAgrees(call.value)
     /\ ~TrailerAgrees(call.value))
    => (call.result = "Err" /\ chunk = None)

\* C2: every Chunk held, from new or from a successful decode, has
\* length() equal to the number of bytes of data() and a stored checksum
\* equal to the CRC of its tag bytes followed by data().
C2_ChunkConsistent ==
    chunk.kind = "Some" =>
        /\ length(chunk.v) = AsU32(Len(data(chunk.v)))
        /\ chunk.v.crc = checksum(bytes(chunk_type(chunk.v)) \o data(chunk.v))

\* C3: as_bytes of new(tag, payload) is the 12 + length byte wire layout,
\* and decode of those bytes succeeds with a chunk equal to the original.
C3_RoundTrip ==
    (out.kind = "Some" /\ out.by = "new") =>
        /\ out.v = Layout(out.of)
        /\ Len(out.v) = 12 + Len(out.of.chunk_data)
        /\ (call.op = "try_from" /\ call.value = out.v)
              => (call.result = "Ok" /\ chunk = Some(out.of))

\* C4: a successful decode of b returns length() = the big-endian u32 of
\* b[0,4), chunk_type() = b[4,8), data() = b[8, 8+length) without the
\* trailer, and crc() = the big-endian u32 of the last 4 bytes of b.
C4_FieldExtraction ==
    (call.op = "try_from" /\ call.result = "Ok") =>
        LET b == call.value
        IN  /\ length(chunk.v) = from_be_bytes(SubSeq(b, 1, 4))
            /\ bytes(chunk_type(chunk.v)) = SubSeq(b, 5, 8)
            /\ length(chunk.v) = AsU32(Len(data(chunk.v)))
            /\ data(chunk.v) = SubSeq(b, 9, 8 + Len(data(chunk.v)))
            /\ Len(data(chunk.v)) = Len(b) - 12
            /\ crc(chunk.v) = from_be_bytes(SubSeq(b, Len(b) - 3, Len(b)))

\* C5: Chunk::new stores the payload as given: data() is the payload byte
\* for byte and length() is its length, whatever its last bytes are.
C5_NewStoresPayload ==
    (call.op = "new" /\ chunk.kind = "Some") =>
        /\ data(chunk.v) = call.data
        /\ length(chunk.v) = AsU32(Len(call.data))

\* bit 5 (mask 0x20) of a byte is clear
Bit5Clear(b) == BitAnd(b, 32) = 0

\* C6: is_critical, is_public and is_reserved_bit_valid hold iff bit 5 of
\* byte 0, 1, 2 is clear; is_safe_to_copy holds iff bit 5 of byte 3 is set.
C6_BitFlags ==
    (tag.kind = "Ok" /\ flags.kind = "Some") =>
        /\ flags.v.critical = Bit5Clear(bytes(tag.v)[1])
        /\ flags.v.public = Bit5Clear(bytes(tag.v)[2])
        /\ flags.v.reserved_bit_valid = Bit5Clear(bytes(tag.v)[3])
        /\ flags.v.safe_to_copy = ~Bit5Clear(bytes(tag.v)[4])

\* C7: on a text of at least 4 bytes from_str fails iff one of the first 4
\* bytes is not an ASCII letter; when it succeeds the tag's bytes are those
\* 4 bytes in order, is_valid() holds and to_string gives back the same 4
\* characters in the same order.
C7_TextConstructor ==
    (tagcall.op = "from_str" /\ Len(tagcall.s) >= 4) =>
        LET first4 == SubSeq(tagcall.s, 1, 4)
        IN  /\ tag.kind \in {"Ok", "Err"}
            /\ tag.kind = "Err"
                 <=> \E i \in 1..4 : ~is_ascii_alphabetic(first4[i])
            /\ tag.kind = "Ok" =>
                 /\ bytes(tag.v) = first4
                 /\ is_valid(tag.v)
                 /\ shown.kind = "Some" => shown.v = first4

\* a text with letters of both cases was accepted and rendered
C7_Witness ==
    /\ tagcall.op = "from_str"
    /\ tagcall.s = <<82, 116, 116, 82, 49>>
    /\ tag.kind = "Ok"
    /\ shown.kind = "Some"

\* C8: a buffer of at least 12 bytes with an alphabetic tag whose size is
\* not 12 + its declared length is refused by decode with an error.
C8_LengthEnforced ==
    (/\ call.op = "try_from"
     /\ Len(call.value) >= 12
     /\ TagIsAlphabetic(call.value)
     /\ ~LengthAgrees(call.value))
    => (call.result = "Err" /\ chunk = None)

\* C9: decode never panics; it returns an error for a buffer of fewer than
\* 12 bytes and for one whose bytes [4,8) are not all ASCII letters.
C9_ErrorsAreValues ==
    call.op = "try_from" =>
        /\ call.result # "panic"
        /\ Len(call.value) < 12 => call.result = "Err"
        /\ (Len(call.value) >= 12 /\ ~TagIsAlphabetic(call.value))
              => call.result = "Err"

\* C10: on a payload of printable ASCII bytes data_as_string succeeds with
\* a text whose bytes are those of data(), none dropped or altered.
C10_TextFidelity ==
    (/\ chunk.kind = "Some"
     /\ text.kind # "None"
     /\ \A i \in 1..Len(data(chunk.v)) :
            data(chunk.v)[i] >= 32 /\ data(chunk.v)[i] <= 126)
    => (text.kind = "Ok" /\ text.v = data(chunk.v))

====
